---- MODULE Spec2Model ----
(***************************************************************************)
(* A model of script.py, the minimal static site builder: the inline       *)
(* renderer (_render_inline), the block renderer (markdown_to_html) and    *)
(* the build / clean pipeline (run_build, run_clean).                      *)
(*                                                                         *)
(* Text is a sequence of characters, each a one-character string.  A       *)
(* literal the code emits (a tag such as <em>, an entity such as &lt;) is  *)
(* kept as ONE element of the sequence: no code path looks inside a        *)
(* literal it has emitted (none contains a delimiter, a bracket or a line  *)
(* break), so the element stands for its characters.                       *)
(***************************************************************************)
EXTENDS Integers, Sequences, FiniteSets, TLC

VARIABLES
    \* ---- _render_inline (one call)
    text,        \* the argument of _render_inline
    t,           \* its local t
    prev_t,      \* the value t had before the statement executed last
    ipc,         \* the statement of _render_inline reached
    \* ---- markdown_to_html (one call)
    md,          \* the argument of markdown_to_html
    lines, html_lines, in_code, code_buf, list_open, ol_open, i,
    consumed,    \* per loop iteration: <<first line index, lines consumed, class>>
    mpc,         \* "idle" | "call" | "scan" | "returned"
    result       \* the returned string, as its lines
    \* (the build pipeline's variables are declared further down)

inlineVars == <<text, t, prev_t, ipc>>
mdVars == <<md, lines, html_lines, in_code, code_buf, list_open, ol_open, i,
            consumed, mpc, result>>

-----------------------------------------------------------------------------
(* Bounds *)

MaxTextLen == 4
MaxLinkLen == 6
MaxLines == 3
MaxCoreLines == 4
MaxSrcFiles == 3
MaxDstEntries == 2

-----------------------------------------------------------------------------
(* Strings *)

NL == "\n"
\* the backtick character (the parser does not accept it inside a string)
BQ == "backtick"

Min(a, b) == IF a < b THEN a ELSE b
Max(a, b) == IF a < b THEN b ELSE a

BoundedStrings(A, n) == UNION {[1..k -> A] : k \in 0..n}

StartsWithAt(s, d, k) ==
    /\ k + Len(d) - 1 <= Len(s)
    /\ SubSeq(s, k, k + Len(d) - 1) = d

StartsWith(s, d) == StartsWithAt(s, d, 1)

\* str.find(c, from): the least index >= from holding c, 0 when there is none
\* (Python's -1); indices are 1-based here.
RECURSIVE Find(_, _, _)
Find(s, c, from) ==
    IF from > Len(s) THEN 0
    ELSE IF s[from] = c THEN from
    ELSE Find(s, c, from + 1)

\* str.split(d): the parts between the non-overlapping occurrences of d,
\* found left to right.
RECURSIVE SplitAcc(_, _, _, _)
SplitAcc(s, d, k, cur) ==
    IF k > Len(s) THEN <<cur>>
    ELSE IF StartsWithAt(s, d, k)
         THEN <<cur>> \o SplitAcc(s, d, k + Len(d), <<>>)
         ELSE SplitAcc(s, d, k + 1, Append(cur, s[k]))

Split(s, d) == SplitAcc(s, d, 1, <<>>)

\* "".join(parts)
RECURSIVE Concat(_)
Concat(parts) ==
    IF parts = <<>> THEN <<>> ELSE Head(parts) \o Concat(Tail(parts))

\* sep.join(parts)
RECURSIVE Join(_, _)
Join(parts, sep) ==
    IF parts = <<>> THEN <<>>
    ELSE IF Len(parts) = 1 THEN Head(parts)
    ELSE Head(parts) \o sep \o Join(Tail(parts), sep)

\* html.escape of one character (quote=True)
EscapeChar(c) ==
    CASE c = "&" -> "&amp;"
      [] c = "<" -> "&lt;"
      [] c = ">" -> "&gt;"
      [] c = "\"" -> "&quot;"
      [] c = "'" -> "&#x27;"
      [] OTHER -> c

escape(s) == [k \in 1..Len(s) |-> EscapeChar(s[k])]

IsSpace(c) == c \in {" ", "\t", NL}

RECURSIVE lstrip(_)
lstrip(s) == IF s # <<>> /\ IsSpace(Head(s)) THEN lstrip(Tail(s)) ELSE s

RECURSIVE rstrip(_)
rstrip(s) ==
    IF s # <<>> /\ IsSpace(s[Len(s)]) THEN rstrip(SubSeq(s, 1, Len(s) - 1)) ELSE s

strip(s) == lstrip(rstrip(s))

\* s.lstrip(c) and s.rstrip(c) for one character c
RECURSIVE lstripChar(_, _)
lstripChar(s, c) ==
    IF s # <<>> /\ Head(s) = c THEN lstripChar(Tail(s), c) ELSE s

RECURSIVE rstripChar(_, _)
rstripChar(s, c) ==
    IF s # <<>> /\ s[Len(s)] = c
    THEN rstripChar(SubSeq(s, 1, Len(s) - 1), c) ELSE s

\* s[k:] with Python's 0-based k
DropFirst(s, k) == SubSeq(s, k + 1, Len(s))

\* str.splitlines(): the lines of s, without their line breaks; a final line
\* break opens no further line, and the empty string has no line.
RECURSIVE SplitLinesAcc(_, _, _)
SplitLinesAcc(s, k, cur) ==
    IF k > Len(s) THEN (IF cur = <<>> THEN <<>> ELSE <<cur>>)
    ELSE IF s[k] = NL THEN <<cur>> \o SplitLinesAcc(s, k + 1, <<>>)
    ELSE SplitLinesAcc(s, k + 1, Append(cur, s[k]))

splitlines(s) == SplitLinesAcc(s, 1, <<>>)

-----------------------------------------------------------------------------
(* Inline renderer *)

BACKTICK == <<BQ>>
STARSTAR == <<"*", "*">>
STAR == <<"*">>

\* the loop of _replace_delimited: parts alternate plain / wrapped
RECURSIVE WrapParts(_, _, _, _)
WrapParts(parts, toggle, open_tag, close_tag) ==
    IF parts = <<>> THEN <<>>
    ELSE <<(IF toggle THEN <<open_tag>> \o Head(parts) \o <<close_tag>>
                      ELSE Head(parts))>>
         \o WrapParts(Tail(parts), ~toggle, open_tag, close_tag)

\* the value of toggle after the loop: it flips once per part
ToggleAfter(parts) == Len(parts) % 2 = 1

_replace_delimited(s, delim, open_tag, close_tag) ==
    LET parts == Split(s, delim) IN
    IF Len(parts) < 3 THEN s
    ELSE IF ToggleAfter(parts) THEN s
    ELSE Concat(WrapParts(parts, FALSE, open_tag, close_tag))

\* mutant: the scan resumes at the closing parenthesis, not after it
RECURSIVE LinksFrom_keeps_paren(_, _)
LinksFrom_keeps_paren(s, k) ==
    IF k > Len(s) THEN <<>>
    ELSE
      LET j == IF s[k] = "[" THEN Find(s, "]", k + 1) ELSE 0
          kk == IF j # 0 /\ j + 1 <= Len(s) /\ s[j + 1] = "("
                THEN Find(s, ")", j + 2) ELSE 0
      IN IF kk # 0
         THEN <<"<a href=\"">> \o SubSeq(s, j + 2, kk - 1) \o <<"\">">>
              \o SubSeq(s, k + 1, j - 1) \o <<"</a>">>
              \o LinksFrom_keeps_paren(s, kk)
         ELSE <<s[k]>> \o LinksFrom_keeps_paren(s, k + 1)

RECURSIVE LinksFrom(_, _)
LinksFrom(s, k) ==
    IF k > Len(s) THEN <<>>
    ELSE
      LET j == IF s[k] = "[" THEN Find(s, "]", k + 1) ELSE 0
          kk == IF j # 0 /\ j + 1 <= Len(s) /\ s[j + 1] = "("
                THEN Find(s, ")", j + 2) ELSE 0
      IN IF kk # 0
         THEN <<"<a href=\"">> \o SubSeq(s, j + 2, kk - 1) \o <<"\">">>
              \o SubSeq(s, k + 1, j - 1) \o <<"</a>">> \o LinksFrom(s, kk + 1)
         ELSE <<s[k]>> \o LinksFrom(s, k + 1)

_replace_links(s) == LinksFrom(s, 1)

_render_inline(txt) ==
    _replace_links(
        _replace_delimited(
            _replace_delimited(
                _replace_delimited(escape(txt), BACKTICK, "<code>", "</code>"),
                STARSTAR, "<strong>", "</strong>"),
            STAR, "<em>", "</em>"))

-----------------------------------------------------------------------------
(* Block renderer: markdown_to_html *)

\* An Optional[str] is <<>> for None and <<v>> for the string v.
None == <<>>
Some(v) == <<v>>

FENCE == <<BQ, BQ, BQ>>
INDENT4 == <<" ", " ", " ", " ">>
TAB == <<"\t">>

IsDigit(c) == c \in {"0", "1", "2", "3", "4", "5", "6", "7", "8", "9"}

_is_fenced_start(line) ==
    LET l == rstripChar(line, NL) IN
    IF StartsWith(l, FENCE) THEN Some(strip(DropFirst(l, 3))) ELSE None

\* the while loop of _starts_with_numbered_item: the first index (0-based)
\* from j on that holds no digit
RECURSIVE SkipDigits(_, _)
SkipDigits(s, j) ==
    IF j < Len(s) /\ IsDigit(s[j + 1]) THEN SkipDigits(s, j + 1) ELSE j

_starts_with_numbered_item(line) ==
    LET s == lstrip(line) IN
    IF Len(s) >= 3 /\ IsDigit(s[1])
    THEN LET j == SkipDigits(s, 1) IN
         IF j < Len(s) /\ s[j + 1] = "." /\ j + 1 < Len(s) /\ s[j + 2] = " "
         THEN Some(strip(DropFirst(s, j + 2)))
         ELSE None
    ELSE None

\* Python's truth value of an Optional[str]: None and "" are false
Truthy(opt) == opt # None /\ opt[1] # <<>>

IsIndented(l) == StartsWith(l, INDENT4) \/ StartsWith(l, TAB)

\* _collect_indented_code: <<buf, advance>>, start 0-based
RECURSIVE CollectFrom(_, _, _)
CollectFrom(ls, k, buf) ==
    IF k < Len(ls) /\ IsIndented(ls[k + 1])
    THEN CollectFrom(ls, k + 1,
             Append(buf, IF StartsWith(ls[k + 1], INDENT4)
                         THEN DropFirst(ls[k + 1], 4)
                         ELSE DropFirst(ls[k + 1], 1)))
    ELSE <<buf, k>>

\* mutant: the block is the first line alone, less four characters
_collect_indented_code_one_line(ls, start) ==
    <<(<<DropFirst(ls[start + 1], 4)>>), 1>>

_collect_indented_code(ls, start) ==
    LET r == CollectFrom(ls, start, <<>>) IN <<r[1], r[2] - start>>

HOpen(level) == <<"<h1>", "<h2>", "<h3>", "<h4>", "<h5>", "<h6>">>[level]
HClose(level) == <<"</h1>", "</h2>", "</h3>", "</h4>", "</h5>", "</h6>">>[level]

\* the number of leading # of a heading line, len(line) - len(line.lstrip("#"))
HashRun(line) == Len(line) - Len(lstripChar(line, "#"))

HeadingLevel(line) == Max(1, Min(6, HashRun(line)))

HeadingText(line) == strip(DropFirst(line, HeadingLevel(line)))

\* The locals of markdown_to_html, as one record.
MdState(ls, hl, ic, cb, lo, oo, k) ==
    [lines |-> ls, html_lines |-> hl, in_code |-> ic, code_buf |-> cb,
     list_open |-> lo, ol_open |-> oo, i |-> k]

MdStart(mdtext) ==
    MdState(splitlines(mdtext), <<>>, FALSE, <<>>, FALSE, FALSE, 0)

\* mutant: only an open unordered list is closed
close_lists_ul_only(st) ==
    [st EXCEPT !.html_lines = IF st.list_open
                              THEN Append(st.html_lines, <<"</ul>">>)
                              ELSE st.html_lines,
               !.list_open = FALSE]

close_lists(st) ==
    LET a == IF st.list_open THEN Append(st.html_lines, <<"</ul>">>)
                             ELSE st.html_lines
        b == IF st.ol_open THEN Append(a, <<"</ol>">>) ELSE a
    IN [st EXCEPT !.html_lines = b, !.list_open = FALSE, !.ol_open = FALSE]

Emit(st, ls) == [st EXCEPT !.html_lines = st.html_lines \o ls]

\* mutant: every branch advances by one line
Advance_by_one(st, n) == [st EXCEPT !.i = st.i + 1]

Advance(st, n) == [st EXCEPT !.i = st.i + n]

\* The class of the line the loop is at, by the order of the tests of the
\* loop body.
LineClass(st) ==
    LET raw == st.lines[st.i + 1]
        line == rstripChar(raw, NL)
    IN IF _is_fenced_start(line) # None
          THEN (IF st.in_code THEN "fence_close" ELSE "fence_open")
       ELSE IF st.in_code THEN "in_code"
       ELSE IF StartsWith(line, <<"#">>) THEN "heading"
       ELSE IF Truthy(_starts_with_numbered_item(line)) THEN "ol_item"
       ELSE IF StartsWith(strip(line), <<"-", " ">>) THEN "ul_item"
       ELSE IF strip(line) = <<>> THEN "blank"
       ELSE IF IsIndented(line) THEN "indented"
       ELSE "paragraph"

FenceBranch(st) ==
    IF st.in_code
    THEN Advance(
           [Emit(st, <<(<<"<pre><code>">>)>>
                     \o splitlines(escape(Join(st.code_buf, <<NL>>)))
                     \o <<(<<"</code></pre>">>)>>)
              EXCEPT !.code_buf = <<>>, !.in_code = FALSE], 1)
    ELSE Advance([st EXCEPT !.in_code = TRUE], 1)

InCodeBranch(st) ==
    Advance([st EXCEPT !.code_buf = Append(st.code_buf, st.lines[st.i + 1])], 1)

HeadingBranch(st) ==
    LET line == rstripChar(st.lines[st.i + 1], NL)
        level == HeadingLevel(line)
    IN Advance(Emit(close_lists(st),
                    <<(<<HOpen(level)>> \o _render_inline(HeadingText(line))
                       \o <<HClose(level)>>)>>), 1)

OrderedBranch(st) ==
    LET line == rstripChar(st.lines[st.i + 1], NL)
        item == _starts_with_numbered_item(line)[1]
        opened == IF ~st.ol_open
                  THEN [Emit(close_lists(st), <<(<<"<ol>">>)>>)
                           EXCEPT !.ol_open = TRUE]
                  ELSE st
    IN Advance(Emit(opened,
                    <<(<<"<li>">> \o _render_inline(item) \o <<"</li>">>)>>), 1)

UnorderedBranch(st) ==
    LET line == rstripChar(st.lines[st.i + 1], NL)
        opened == IF ~st.list_open
                  THEN [Emit(close_lists(st), <<(<<"<ul>">>)>>)
                           EXCEPT !.list_open = TRUE]
                  ELSE st
    IN Advance(Emit(opened,
                    <<(<<"<li>">>
                       \o _render_inline(strip(DropFirst(strip(line), 2)))
                       \o <<"</li>">>)>>), 1)

BlankBranch(st) == Advance(Emit(close_lists(st), <<(<<>>)>>), 1)

IndentedBranch(st) ==
    LET got == _collect_indented_code(st.lines, st.i) IN
    Advance(Emit(close_lists(st),
                 <<(<<"<pre><code>">>), escape(Join(got[1], <<NL>>)),
                   (<<"</code></pre>">>)>>), got[2])

ParagraphBranch(st) ==
    LET line == rstripChar(st.lines[st.i + 1], NL) IN
    Advance(Emit(close_lists(st),
                 <<(<<"<p>">> \o _render_inline(strip(line)) \o <<"</p>">>)>>), 1)

\* One iteration of the while loop (st.i < len(lines)).
MdStep(st) ==
    LET c == LineClass(st) IN
    CASE c \in {"fence_open", "fence_close"} -> FenceBranch(st)
      [] c = "in_code" -> InCodeBranch(st)
      [] c = "heading" -> HeadingBranch(st)
      [] c = "ol_item" -> OrderedBranch(st)
      [] c = "ul_item" -> UnorderedBranch(st)
      [] c = "blank" -> BlankBranch(st)
      [] c = "indented" -> IndentedBranch(st)
      [] OTHER -> ParagraphBranch(st)

\* After the loop: close any open list, join the lines.
MdFinish(st) ==
    LET a == IF st.list_open THEN Append(st.html_lines, <<"</ul>">>)
                             ELSE st.html_lines
        b == IF st.ol_open THEN Append(a, <<"</ol>">>) ELSE a
    IN b

RECURSIVE MdRun(_)
MdRun(st) == IF st.i < Len(st.lines) THEN MdRun(MdStep(st)) ELSE MdFinish(st)

\* markdown_to_html as a function: the returned string
markdown_to_html(mdtext) == Join(MdRun(MdStart(mdtext)), <<NL>>)

-----------------------------------------------------------------------------
(* Inputs *)

InlineChars == {"a", "*", BQ, "<"}

\* the characters of links, for texts long enough to hold [][]()
LinkChars == {"a", "[", "]", "(", ")"}

InlineTexts ==
    BoundedStrings(InlineChars, MaxTextLen)
    \cup BoundedStrings(LinkChars, MaxLinkLen)

L_fence == FENCE
L_blank == <<>>
L_h1 == <<"#", " ", "a">>
L_h7 == <<"#", "#", "#", "#", "#", "#", "#", " ", "a">>
L_ol == <<"1", ".", " ", "a">>
L_ol_empty == <<"1", ".", " ">>
L_ul == <<"-", " ", "a">>
L_ul_deep == INDENT4 \o <<"-", " ", "a">>
L_indent == INDENT4 \o <<"a">>
L_tab == TAB \o <<"<">>
L_para == <<"a", "<">>

LineSet == {L_fence, L_blank, L_h1, L_h7, L_ol, L_ol_empty, L_ul, L_ul_deep,
            L_indent, L_tab, L_para}

\* the text of a file holding the lines ls, each ended by a line break
RECURSIVE Terminated(_)
Terminated(ls) ==
    IF ls = <<>> THEN <<>> ELSE Head(ls) \o <<NL>> \o Terminated(Tail(ls))

\* the lines of the longer documents
CoreLines == {L_fence, L_blank, L_h1, L_ol, L_ul, L_indent}

\* every document of up to MaxLines lines of LineSet, and of up to
\* MaxCoreLines lines of CoreLines
Docs ==
    {Terminated(ls) : ls \in BoundedStrings(LineSet, MaxLines)
                              \cup BoundedStrings(CoreLines, MaxCoreLines)}

-----------------------------------------------------------------------------
(* Paths and the file system *)

VARIABLES
    \* ---- one invocation of main(): the arguments
    cmd,          \* "build" | "clean"
    dry_run, clean_first,
    \* ---- the file system
    src_exists,   \* whether src_root/domain exists
    src,          \* the files under src_root/domain: a set of relative paths
    dst,          \* dst_root/domain: relative path -> node; <<>> is the root
    \* ---- the locals of run_build / run_clean / clean_domain
    bpc,          \* the statement reached
    to_remove,    \* clean_domain: the enumerated paths not yet visited
    md_files,     \* run_build: the collected files not yet converted
    exit_status,  \* -1 while running
    \* ---- what the run did (observations)
    reported,     \* the set of <<"write" | "remove", path>> logged
    removed,      \* the paths unlinked
    written,      \* the sequence of paths write_text wrote
    rendered,     \* the source files md_to_html_file rendered a page for
    listing,      \* the lines of the index listing build_index built last
    fs0,          \* dst when the run started
    run_no,       \* 1, or 2 for the repetition of a dry run without --dry-run
    first_run,    \* the dry run repeated: its reported set
    raced         \* the enumerated files another actor removed meanwhile

buildVars == <<cmd, dry_run, clean_first, src_exists, src, dst, bpc, to_remove,
               md_files, exit_status, reported, removed, written, rendered,
               listing, fs0, run_no, first_run, raced>>

vars == <<inlineVars, mdVars, buildVars>>

\* A name is a sequence of characters; a path is a sequence of names,
\* relative to the domain root.
N_a_md == <<"a", ".", "m", "d">>
N_bc_md == <<"b", "-", "c", ".", "m", "d">>
N_index_md == <<"i", "n", "d", "e", "x", ".", "m", "d">>
N_res_index_md == <<"_", "_", "i", "n", "d", "e", "x", "_", "_", ".", "m", "d">>
N_d == <<"d">>
N_e_md == <<"e", ".", "m", "d">>
N_res_x_md == <<"_", "_", "x", ".", "m", "d">>
N_settings == <<"_", "_", "s", "e", "t", ".", "t", "o", "m", "l">>
N_index_html == <<"i", "n", "d", "e", "x", ".", "h", "t", "m", "l">>
N_a_html == <<"a", ".", "h", "t", "m", "l">>
N_old_html == <<"o", "l", "d", ".", "h", "t", "m", "l">>
N_z_html == <<"z", ".", "h", "t", "m", "l">>
N_style_css == <<"s", ".", "c", "s", "s">>

EXT_MD == <<".", "m", "d">>
EXT_HTML == <<".", "h", "t", "m", "l">>
RESERVED == <<"_", "_">>

\* the characters of names and titles in code point order
CodeOrder ==
    <<" ", "#", "-", ".", "/", "<", "\\", "_", "a", "b", "c", "d", "e", "h",
      "i", "l", "m", "n", "o", "s", "t", "x", "z">>

Ord(c) == CHOOSE k \in 1..Len(CodeOrder) : CodeOrder[k] = c

\* a < b for two strings, as Python compares str
RECURSIVE LexLess(_, _)
LexLess(a, b) ==
    IF a = <<>> THEN b # <<>>
    ELSE IF b = <<>> THEN FALSE
    ELSE IF Head(a) = Head(b) THEN LexLess(Tail(a), Tail(b))
    ELSE Ord(Head(a)) < Ord(Head(b))

\* a < b for two (href, title) tuples
EntryLess(a, b) ==
    LexLess(a[1], b[1]) \/ (a[1] = b[1] /\ LexLess(a[2], b[2]))

EndsWith(s, d) ==
    Len(d) <= Len(s) /\ SubSeq(s, Len(s) - Len(d) + 1, Len(s)) = d

\* the index (1-based) of the last "." of a name that opens a suffix, 0 when
\* the name has none (a leading dot opens no suffix)
RECURSIVE LastDot(_, _)
LastDot(nm, k) ==
    IF k <= 1 THEN 0 ELSE IF nm[k] = "." THEN k ELSE LastDot(nm, k - 1)

Name(path) == path[Len(path)]
suffix(path) ==
    LET k == LastDot(Name(path), Len(Name(path))) IN
    IF k = 0 \/ k = Len(Name(path)) THEN <<>>
    ELSE SubSeq(Name(path), k, Len(Name(path)))
stem(path) ==
    LET k == LastDot(Name(path), Len(Name(path))) IN
    IF k = 0 \/ k = Len(Name(path)) THEN Name(path)
    ELSE SubSeq(Name(path), 1, k - 1)
with_suffix(path, suf) ==
    SubSeq(path, 1, Len(path) - 1) \o <<stem(path) \o suf>>

\* str(path)
PathStr(path) == Join(path, <<"/">>)

\* s.replace(a, b) for two characters
ReplaceChar(s, a, b) == [k \in 1..Len(s) |-> IF s[k] = a THEN b ELSE s[k]]

\* the sequences that list every element of S once: the orders in which the
\* file system may enumerate S
Orders(S) ==
    {f \in [1..Cardinality(S) -> S] :
        \A a, b \in 1..Cardinality(S) : a # b => f[a] # f[b]}

Ancestors(path) == {SubSeq(path, 1, k) : k \in 0..(Len(path) - 1)}

DirNode == [kind |-> "dir", page |-> <<>>]
FileNode(pg) == [kind |-> "file", page |-> pg]

\* the tree that holds the given leaves (path -> node) and their ancestors
MkTree(leaves) ==
    LET dirs == UNION {Ancestors(q) : q \in DOMAIN leaves} IN
    [q \in dirs \cup DOMAIN leaves |->
        IF q \in DOMAIN leaves THEN leaves[q] ELSE DirNode]

NoTree == [q \in {} |-> DirNode]

Exists(fs, path) == path \in DOMAIN fs
IsDir(fs, path) == Exists(fs, path) /\ fs[path].kind = "dir"
IsFile(fs, path) == Exists(fs, path) /\ fs[path].kind = "file"

\* root.rglob("*" + ext): every entry below the root, file or directory,
\* whose name ends with ext
rglob(fs, ext) == {q \in DOMAIN fs : q # <<>> /\ EndsWith(Name(q), ext)}

\* path.parent.mkdir(parents=True, exist_ok=True); path.write_text(text):
\* raises when an ancestor is a file or the path is a directory
WriteFails(fs, path) ==
    \/ \E a \in Ancestors(path) : IsFile(fs, a)
    \/ IsDir(fs, path)

Mkdirs(fs, path) ==
    [q \in DOMAIN fs \cup Ancestors(path) |->
        IF q \in DOMAIN fs THEN fs[q] ELSE DirNode]

WriteFile(fs, path, pg) ==
    [q \in DOMAIN fs \cup Ancestors(path) \cup {path} |->
        IF q = path THEN FileNode(pg)
        ELSE IF q \in DOMAIN fs THEN fs[q] ELSE DirNode]

\* p.unlink(): "gone" (FileNotFoundError), "raises" (a directory) or "ok"
UnlinkOutcome(fs, path) ==
    IF ~Exists(fs, path) THEN "gone"
    ELSE IF IsDir(fs, path) THEN "raises"
    ELSE "ok"

Unlink(fs, path) == [q \in DOMAIN fs \ {path} |-> fs[q]]

-----------------------------------------------------------------------------
(* Site building *)

\* the text of each source file
SrcLines(path) ==
    CASE path = <<N_a_md>> -> <<L_h1>>
      [] path = <<N_bc_md>> -> <<L_para>>
      [] path = <<N_index_md>> -> <<L_h7>>
      [] path = <<N_res_index_md>> -> <<L_h1, L_ul>>
      [] path = <<N_d, N_e_md>> -> <<L_fence, L_h1, L_fence>>
      [] OTHER -> <<L_para>>

read_text(path) == Terminated(SrcLines(path))

BASE_URL == <<"/">>
SITE_TITLE == <<"S", "i", "t", "e">>

\* render_page, without the time of the build: the fields of the template
render_page(title, content_html, canonical_path) ==
    [title |-> escape(title),
     canonical |-> rstripChar(BASE_URL, "/") \o <<"/">>
                   \o lstripChar(canonical_path, "/"),
     site_title |-> escape(SITE_TITLE),
     content |-> content_html]

\* md_title: the first line that starts with #, or None
RECURSIVE FirstHashLine(_)
FirstHashLine(ls) ==
    IF ls = <<>> THEN None
    ELSE IF StartsWith(Head(ls), <<"#">>)
         THEN Some(strip(lstripChar(Head(ls), "#")))
         ELSE FirstHashLine(Tail(ls))

md_title(path) == FirstHashLine(splitlines(read_text(path)))

\* md_title(p) or p.stem.replace("-", " ")
TitleOf(path) ==
    IF Truthy(md_title(path)) THEN md_title(path)[1]
    ELSE ReplaceChar(stem(path), "-", " ")

\* mutant: no file is skipped
md_to_html_file_skips_never(path) == FALSE

\* mutant: only a reserved file at the root is skipped
md_to_html_file_skips_root_only(path) ==
    Len(path) = 1 /\ StartsWith(Name(path), RESERVED) /\ suffix(path) = EXT_MD

\* the guard of md_to_html_file: the file is skipped
md_to_html_file_skips(path) ==
    StartsWith(Name(path), RESERVED) /\ suffix(path) = EXT_MD

\* the page md_to_html_file composes and where it goes
PageDst(path) == with_suffix(path, EXT_HTML)

PageOf(path) ==
    render_page(TitleOf(path), markdown_to_html(read_text(path)),
                PathStr(PageDst(path)))

\* root.rglob("*.md") over the source files
rglob_md(files) == {q \in files : EndsWith(Name(q), EXT_MD)}

collect_md_files(files) == rglob_md(files)

\* the guard of the loop of build_index: the file is skipped
build_index_skips(path) == StartsWith(Name(path), RESERVED)

\* the entry build_index appends for a file
EntryOf(path) ==
    <<ReplaceChar(PathStr(with_suffix(path, EXT_HTML)), "\\", "/"),
      TitleOf(path)>>

\* the entries in the order of the enumeration
RECURSIVE CollectEntries(_)
CollectEntries(order) ==
    IF order = <<>> THEN <<>>
    ELSE (IF build_index_skips(Head(order)) THEN <<>>
          ELSE <<EntryOf(Head(order))>>) \o CollectEntries(Tail(order))

\* list.sort() of the entries
RECURSIVE InsertSorted(_, _)
InsertSorted(sorted, e) ==
    IF sorted = <<>> THEN <<e>>
    ELSE IF EntryLess(e, Head(sorted)) THEN <<e>> \o sorted
    ELSE <<Head(sorted)>> \o InsertSorted(Tail(sorted), e)

RECURSIVE SortAcc(_, _)
SortAcc(todo, sorted) ==
    IF todo = <<>> THEN sorted
    ELSE SortAcc(Tail(todo), InsertSorted(sorted, Head(todo)))

\* mutant: the entries stay in the order of the enumeration
SortEntries_unsorted(entries) == entries

SortEntries(entries) == SortAcc(entries, <<>>)

ListingLine(e) ==
    <<"<li><a href=\"">> \o e[1] \o <<"\">">> \o escape(e[2]) \o <<"</a></li>">>

\* the listing of build_index for one enumeration order
ListingOf(order) ==
    LET entries == SortEntries(CollectEntries(order)) IN
    <<(<<"<h2>Posts</h2>">>), (<<"<ul>">>)>>
    \o [k \in 1..Len(entries) |-> ListingLine(entries[k])]
    \o <<(<<"</ul>">>)>>

IndexBody(files) ==
    IF <<N_res_index_md>> \in files
    THEN markdown_to_html(read_text(<<N_res_index_md>>))
    ELSE <<"<h2>Index</h2>">>

IndexPage(files, order) ==
    render_page(SITE_TITLE \o <<" ", "-", " ", "I", "n", "d", "e", "x">>,
                IndexBody(files) \o <<NL>> \o Join(ListingOf(order), <<NL>>),
                N_index_html)

\* mutant: the clean comes before the check of the source path
run_build_entry_clean_first(srcExists, cleanFirst) ==
    IF cleanFirst THEN "clean"
    ELSE IF ~srcExists THEN "exit"
    ELSE "collect"

\* run_build, from its start to the first statement that touches the
\* destination: the statement it goes to
run_build_entry(srcExists, cleanFirst) ==
    IF ~srcExists THEN "exit"
    ELSE IF cleanFirst THEN "clean"
    ELSE "collect"

-----------------------------------------------------------------------------
(* One call of _render_inline, statement by statement *)

InlineIdle ==
    /\ text = <<>> /\ t = <<>> /\ prev_t = <<>> /\ ipc = "idle"

InitInline ==
    /\ text \in InlineTexts
    /\ t = <<>> /\ prev_t = <<>>
    /\ ipc = "escape"

InlineStep(from, to, val) ==
    /\ ipc = from
    /\ prev_t' = t
    /\ t' = val
    /\ ipc' = to
    /\ UNCHANGED <<text, mdVars, buildVars>>

IEscape == InlineStep("escape", "code", escape(text))
ICode == InlineStep("code", "strong",
                    _replace_delimited(t, BACKTICK, "<code>", "</code>"))
IStrong == InlineStep("strong", "em",
                      _replace_delimited(t, STARSTAR, "<strong>", "</strong>"))
IEm == InlineStep("em", "links", _replace_delimited(t, STAR, "<em>", "</em>"))
ILinks == InlineStep("links", "done", _replace_links(t))

NextInline == IEscape \/ ICode \/ IStrong \/ IEm \/ ILinks

-----------------------------------------------------------------------------
(* One call of markdown_to_html, one loop iteration per step *)

MdIdle ==
    /\ md = <<>> /\ lines = <<>> /\ html_lines = <<>> /\ in_code = FALSE
    /\ code_buf = <<>> /\ list_open = FALSE /\ ol_open = FALSE /\ i = 0
    /\ consumed = <<>> /\ mpc = "idle" /\ result = <<>>

InitMd ==
    /\ md \in Docs
    /\ lines = <<>> /\ html_lines = <<>> /\ in_code = FALSE
    /\ code_buf = <<>> /\ list_open = FALSE /\ ol_open = FALSE /\ i = 0
    /\ consumed = <<>> /\ mpc = "call" /\ result = <<>>

Locals == MdState(lines, html_lines, in_code, code_buf, list_open, ol_open, i)

SetLocals(st) ==
    /\ lines' = st.lines
    /\ html_lines' = st.html_lines
    /\ in_code' = st.in_code
    /\ code_buf' = st.code_buf
    /\ list_open' = st.list_open
    /\ ol_open' = st.ol_open
    /\ i' = st.i

MdCall ==
    /\ mpc = "call"
    /\ SetLocals(MdStart(md))
    /\ mpc' = "scan"
    /\ UNCHANGED <<md, consumed, result, inlineVars, buildVars>>

MdLoop ==
    /\ mpc = "scan"
    /\ i < Len(lines)
    /\ LET nxt == MdStep(Locals) IN
         /\ SetLocals(nxt)
         /\ consumed' = Append(consumed, <<i, nxt.i - i, LineClass(Locals)>>)
    /\ UNCHANGED <<md, mpc, result, inlineVars, buildVars>>

MdReturn ==
    /\ mpc = "scan"
    /\ ~(i < Len(lines))
    /\ html_lines' = MdFinish(Locals)
    /\ result' = Join(html_lines', <<NL>>)
    /\ mpc' = "returned"
    /\ UNCHANGED <<md, lines, in_code, code_buf, list_open, ol_open, i, consumed,
                   inlineVars, buildVars>>

NextMd == MdCall \/ MdLoop \/ MdReturn

-----------------------------------------------------------------------------
(* One invocation of main(): run_build or run_clean, statement by statement *)

SrcUniverse ==
    {<<N_a_md>>, <<N_bc_md>>, <<N_index_md>>, <<N_res_index_md>>,
     <<N_d, N_e_md>>, <<N_d, N_res_x_md>>, <<N_settings>>}

StalePage == render_page(<<"o", "l", "d">>, <<>>, <<>>)

\* what the destination may hold before the run: pages of an earlier build,
\* an asset, and a directory whose name ends with .html
DstUniverse ==
    (<<N_index_html>> :> FileNode(StalePage))
    @@ (<<N_a_html>> :> FileNode(StalePage))
    @@ (<<N_d, N_old_html>> :> FileNode(StalePage))
    @@ (<<N_style_css>> :> FileNode(StalePage))
    @@ (<<N_z_html>> :> DirNode)

SmallSubsets(S, n) == {T \in SUBSET S : Cardinality(T) <= n}

DstTrees ==
    {NoTree} \cup
    {MkTree((<<>> :> DirNode) @@ [q \in L |-> DstUniverse[q]]) :
        L \in SmallSubsets(DOMAIN DstUniverse, MaxDstEntries)}

NoWrites == [q \in {} |-> 0]

BuildIdle ==
    /\ cmd = "none" /\ dry_run = FALSE /\ clean_first = FALSE
    /\ src_exists = FALSE /\ src = {} /\ dst = NoTree
    /\ bpc = "idle" /\ to_remove = {} /\ md_files = {} /\ exit_status = -1
    /\ reported = {} /\ removed = {} /\ written = NoWrites /\ rendered = {}
    /\ listing = <<>> /\ fs0 = NoTree /\ run_no = 1 /\ first_run = {}
    /\ raced = {}

InitBuild ==
    /\ cmd \in {"build", "clean"}
    /\ dry_run \in BOOLEAN
    /\ clean_first \in (IF cmd = "build" THEN BOOLEAN ELSE {FALSE})
    /\ src_exists \in (IF cmd = "build" THEN BOOLEAN ELSE {FALSE})
    /\ src \in (IF src_exists THEN SmallSubsets(SrcUniverse, MaxSrcFiles)
                ELSE {{}})
    /\ dst \in DstTrees
    /\ fs0 = dst
    /\ bpc = "main" /\ to_remove = {} /\ md_files = {} /\ exit_status = -1
    /\ reported = {} /\ removed = {} /\ written = NoWrites /\ rendered = {}
    /\ listing = <<>> /\ run_no = 1 /\ first_run = {} /\ raced = {}

argVars == <<cmd, dry_run, clean_first>>
obsVars == <<reported, removed, written, rendered, listing>>
runVars == <<fs0, run_no, first_run, raced>>

\* run_build up to the check of the domain source path
RunBuild ==
    /\ bpc = "main" /\ cmd = "build"
    /\ bpc' = run_build_entry(src_exists, clean_first)
    /\ exit_status' = IF bpc' = "exit" THEN 2 ELSE exit_status
    /\ UNCHANGED <<argVars, src_exists, src, dst, to_remove, md_files, obsVars,
                   runVars, inlineVars, mdVars>>

RunClean ==
    /\ bpc = "main" /\ cmd = "clean"
    /\ bpc' = "clean"
    /\ UNCHANGED <<argVars, src_exists, src, dst, to_remove, md_files,
                   exit_status, obsVars, runVars, inlineVars, mdVars>>

\* clean_domain: the check of the root and the enumeration
CleanBegin ==
    /\ bpc = "clean"
    /\ to_remove' = IF Exists(dst, <<>>) THEN rglob(dst, EXT_HTML) ELSE {}
    /\ bpc' = "cleaning"
    /\ UNCHANGED <<argVars, src_exists, src, dst, md_files, exit_status,
                   obsVars, runVars, inlineVars, mdVars>>

\* clean_domain: one iteration of the loop
CleanStep ==
    /\ bpc = "cleaning"
    /\ \E q \in to_remove :
        LET outcome == IF dry_run THEN "skip" ELSE UnlinkOutcome(dst, q) IN
        /\ to_remove' = to_remove \ {q}
        /\ reported' = reported \cup {<<"remove", q>>}
        /\ dst' = IF outcome = "ok" THEN Unlink(dst, q) ELSE dst
        /\ removed' = IF outcome = "ok" THEN removed \cup {q} ELSE removed
        /\ bpc' = IF outcome = "raises" THEN "crashed" ELSE bpc
        /\ exit_status' = IF outcome = "raises" THEN 1 ELSE exit_status
    /\ UNCHANGED <<argVars, src_exists, src, md_files, written, rendered,
                   listing, runVars, inlineVars, mdVars>>

\* clean_domain returns: run_clean is done, run_build goes on
CleanEnd ==
    /\ bpc = "cleaning" /\ to_remove = {}
    /\ bpc' = IF cmd = "build" THEN "collect" ELSE "done"
    /\ exit_status' = IF cmd = "build" THEN exit_status ELSE 0
    /\ UNCHANGED <<argVars, src_exists, src, dst, to_remove, md_files, obsVars,
                   runVars, inlineVars, mdVars>>

CollectMd ==
    /\ bpc = "collect"
    /\ md_files' = collect_md_files(src)
    /\ bpc' = "convert"
    /\ UNCHANGED <<argVars, src_exists, src, dst, to_remove, exit_status,
                   obsVars, runVars, inlineVars, mdVars>>

\* write_text(path, page, dry_run), for the caller that goes to pc next
WriteText(path, pg, next) ==
    /\ reported' = reported \cup {<<"write", path>>}
    /\ IF dry_run
       THEN /\ bpc' = next
            /\ UNCHANGED <<dst, written>>
       ELSE IF WriteFails(dst, path)
       THEN /\ dst' = IF \E a \in Ancestors(path) : IsFile(dst, a)
                      THEN dst ELSE Mkdirs(dst, path)
            /\ bpc' = "crashed"
            /\ UNCHANGED written
       ELSE /\ dst' = WriteFile(dst, path, pg)
            /\ written' = IF path \in DOMAIN written
                          THEN [written EXCEPT ![path] = @ + 1]
                          ELSE written @@ (path :> 1)
            /\ bpc' = next

\* md_to_html_file for one of the collected files
ConvertStep ==
    /\ bpc = "convert"
    /\ \E q \in md_files :
        /\ md_files' = md_files \ {q}
        /\ IF md_to_html_file_skips(q)
           THEN UNCHANGED <<dst, bpc, reported, written, rendered>>
           ELSE /\ rendered' = rendered \cup {q}
                /\ WriteText(PageDst(q), PageOf(q), "convert")
    /\ exit_status' = IF bpc' = "crashed" THEN 1 ELSE exit_status
    /\ UNCHANGED <<argVars, src_exists, src, to_remove, removed, listing,
                   runVars, inlineVars, mdVars>>

\* build_index, and the end of run_build
BuildIndex ==
    /\ bpc = "convert" /\ md_files = {}
    /\ \E order \in Orders(rglob_md(src)) :
        /\ listing' = ListingOf(order)
        /\ WriteText(<<N_index_html>>, IndexPage(src, order), "done")
    /\ exit_status' = IF bpc' = "crashed" THEN 1 ELSE 0
    /\ UNCHANGED <<argVars, src_exists, src, to_remove, md_files, removed,
                   rendered, runVars, inlineVars, mdVars>>

\* the same command once more on the file system the dry run left, without
\* --dry-run
Rerun ==
    /\ bpc = "done" /\ dry_run /\ run_no = 1
    /\ first_run' = reported
    /\ run_no' = 2
    /\ dry_run' = FALSE
    /\ fs0' = dst
    /\ bpc' = "main" /\ to_remove' = {} /\ md_files' = {} /\ exit_status' = -1
    /\ reported' = {} /\ removed' = {} /\ written' = NoWrites
    /\ rendered' = {} /\ listing' = <<>>
    /\ UNCHANGED <<cmd, clean_first, src_exists, src, dst, raced, inlineVars,
                   mdVars>>

NextBuild ==
    \/ RunBuild \/ RunClean \/ CleanBegin \/ CleanStep \/ CleanEnd
    \/ CollectMd \/ ConvertStep \/ BuildIndex \/ Rerun

\* Between the enumeration of clean_domain and p.unlink(), another actor
\* removes a file that is still to be visited.
OtherActorRemoves ==
    /\ bpc = "cleaning" /\ ~dry_run
    /\ \E q \in to_remove :
        /\ IsFile(dst, q)
        /\ dst' = Unlink(dst, q)
        /\ raced' = raced \cup {q}
    /\ UNCHANGED <<argVars, src_exists, src, bpc, to_remove, md_files,
                   exit_status, obsVars, fs0, run_no, first_run, inlineVars,
                   mdVars>>

\* run_clean without --dry-run, beside the other actor
NextRace ==
    \/ RunClean \/ CleanBegin \/ CleanStep \/ CleanEnd \/ OtherActorRemoves

-----------------------------------------------------------------------------
(* Specifications *)

\* a call of _render_inline on its own
InlineInit == InitInline /\ MdIdle /\ BuildIdle
SpecInline == InlineInit /\ [][NextInline]_vars

\* a call of markdown_to_html on its own
MdInit == InitMd /\ InlineIdle /\ BuildIdle
SpecMd == MdInit /\ [][NextMd]_vars

\* an invocation of main()
BuildInit == InitBuild /\ InlineIdle /\ MdIdle
SpecBuild == BuildInit /\ [][NextBuild]_vars

\* an invocation of main() for clean without --dry-run, while another actor
\* removes files of the destination
RaceInit == BuildInit /\ cmd = "clean" /\ ~dry_run
SpecRace == RaceInit /\ [][NextRace]_vars

-----------------------------------------------------------------------------
(* Claims about the inline renderer (SpecInline) *)

\* the number of occurrences of d in s, counted left to right without overlap
RECURSIVE CountFrom(_, _, _)
CountFrom(s, d, k) ==
    IF k > Len(s) THEN 0
    ELSE IF StartsWithAt(s, d, k) THEN 1 + CountFrom(s, d, k + Len(d))
    ELSE CountFrom(s, d, k + 1)

Occurrences(s, d) == CountFrom(s, d, 1)

\* s with the 1st, 3rd, ... occurrence of d replaced by open_tag and the 2nd,
\* 4th, ... by close_tag; n is the number of occurrences passed
RECURSIVE AltFrom(_, _, _, _, _, _)
AltFrom(s, d, open_tag, close_tag, k, n) ==
    IF k > Len(s) THEN <<>>
    ELSE IF StartsWithAt(s, d, k)
         THEN <<(IF n % 2 = 0 THEN open_tag ELSE close_tag)>>
              \o AltFrom(s, d, open_tag, close_tag, k + Len(d), n + 1)
         ELSE <<s[k]>> \o AltFrom(s, d, open_tag, close_tag, k + 1, n)

Alternating(s, d, open_tag, close_tag) == AltFrom(s, d, open_tag, close_tag, 1, 0)

\* a call of _replace_delimited has just returned: prev_t went in, t came out
AfterPass == ipc \in {"strong", "em", "links"}

LastPass ==
    CASE ipc = "strong" -> <<BACKTICK, "<code>", "</code>">>
      [] ipc = "em" -> <<STARSTAR, "<strong>", "</strong>">>
      [] OTHER -> <<STAR, "<em>", "</em>">>

\* C1: a delimiter that occurs an even, non-zero number of times in the
\* escaped text has its 1st, 3rd, ... occurrence replaced by the opening tag
\* and its 2nd, 4th, ... by the closing tag, the rest of the text unchanged.
C1_EvenCountIsWrapped ==
    (AfterPass /\ Occurrences(prev_t, LastPass[1]) > 0
               /\ Occurrences(prev_t, LastPass[1]) % 2 = 0)
    => t = Alternating(prev_t, LastPass[1], LastPass[2], LastPass[3])

\* C2: a delimiter that occurs an odd number of times leaves the string
\* unchanged: _replace_delimited returns its argument.
C2_OddCountIsUnchanged ==
    (AfterPass /\ Occurrences(prev_t, LastPass[1]) % 2 = 1) => t = prev_t

-----------------------------------------------------------------------------
(* Claims about the block renderer (SpecMd) *)

PRE_OPEN == <<"<pre><code>">>
PRE_CLOSE == <<"</code></pre>">>

\* the loop iteration executed last: <<first line (0-based), lines, class>>
LastIter == consumed[Len(consumed)]

JustDid(class) == mpc = "scan" /\ consumed # <<>> /\ LastIter[3] = class

\* the 0-based index of the last line classified fence_open
LastFenceOpen ==
    LET ks == {k \in 1..Len(consumed) : consumed[k][3] = "fence_open"} IN
    consumed[CHOOSE k \in ks : \A m \in ks : m <= k][1]

\* the lines between the opening fence and the closing fence just handled
FenceInterior == SubSeq(lines, LastFenceOpen + 2, LastIter[1])

EndsWithLines(ls, block) ==
    /\ Len(block) <= Len(ls)
    /\ SubSeq(ls, Len(ls) - Len(block) + 1, Len(ls)) = block

CountLines(ls, l) == Cardinality({k \in 1..Len(ls) : ls[k] = l})

CountClass(classes) ==
    Cardinality({k \in 1..Len(consumed) : consumed[k][3] \in classes})

\* C3: when a fence closes, the output gains exactly one <pre><code> block
\* whose lines are the escaped interior lines, one for one and in order.
C3_FenceRoundTrip ==
    JustDid("fence_close") =>
        /\ EndsWithLines(html_lines,
               <<PRE_OPEN>>
               \o [k \in 1..Len(FenceInterior) |-> escape(FenceInterior[k])]
               \o <<PRE_CLOSE>>)
        /\ CountLines(html_lines, PRE_OPEN)
               = CountClass({"fence_close", "indented"})

\* the list markup of the output: the tags and one "li" per item line
ListKind(l) ==
    IF l = <<"<ol>">> THEN <<"ol">>
    ELSE IF l = <<"</ol>">> THEN <<"/ol">>
    ELSE IF l = <<"<ul>">> THEN <<"ul">>
    ELSE IF l = <<"</ul>">> THEN <<"/ul">>
    ELSE IF l # <<>> /\ Head(l) = "<li>" THEN <<"li">>
    ELSE <<>>

RECURSIVE ListMarkup(_)
ListMarkup(ls) ==
    IF ls = <<>> THEN <<>> ELSE ListKind(Head(ls)) \o ListMarkup(Tail(ls))

ClassAt(k) == IF k \in 1..Len(consumed) THEN consumed[k][3] ELSE "none"

\* what the k-th iteration owes the list markup when every maximal run of
\* item lines of one kind is one list of its own
RunMarkup(k) ==
    LET c == ClassAt(k)
        tag == IF c = "ol_item" THEN "ol" ELSE "ul"
        close == IF c = "ol_item" THEN "/ol" ELSE "/ul"
    IN IF c \notin {"ol_item", "ul_item"} THEN <<>>
       ELSE (IF ClassAt(k - 1) # c THEN <<tag>> ELSE <<>>)
            \o <<"li">>
            \o (IF ClassAt(k + 1) # c THEN <<close>> ELSE <<>>)

RECURSIVE RunsMarkup(_)
RunsMarkup(k) ==
    IF k > Len(consumed) THEN <<>> ELSE RunMarkup(k) \o RunsMarkup(k + 1)

\* C4: every maximal run of consecutive ordered (unordered) item lines is
\* one <ol> (<ul>) of its own holding one <li> per line, closed before the
\* next list opens.
C4_RunsAreLists ==
    mpc = "returned" => ListMarkup(html_lines) = RunsMarkup(1)

\* C5: a heading line with n leading # becomes <hL>T</hL>, L = min(n, 6), T
\* the inline rendering of the line without its whole run of # and the
\* surrounding whitespace; no list stays open.
C5_HeadingStripsMarker ==
    JustDid("heading") =>
        LET line == lines[LastIter[1] + 1]
            level == Min(HashRun(line), 6)
        IN /\ html_lines[Len(html_lines)]
                = <<HOpen(level)>>
                  \o _render_inline(strip(lstripChar(line, "#")))
                  \o <<HClose(level)>>
           /\ ~list_open /\ ~ol_open

-----------------------------------------------------------------------------
(* Claims about build and clean (SpecBuild) *)

Reserved(path) == StartsWith(Name(path), RESERVED)
IsMarkdown(path) == EndsWith(Name(path), EXT_MD)

\* the href of a source file: its relative path, .html for .md, with /
HrefFor(path) ==
    ReplaceChar(PathStr(SubSeq(path, 1, Len(path) - 1)
                        \o <<SubSeq(Name(path), 1, Len(Name(path)) - 3)
                             \o EXT_HTML>>), "\\", "/")

\* the href target in a line of the listing
HrefIn(l) ==
    SubSeq(l, 2, (CHOOSE k \in 2..Len(l) : l[k] = "\">" /\
                     \A m \in 2..(k - 1) : l[m] # "\">") - 1)

\* the href targets of the listing, in the order of the page
ListingHrefs ==
    [k \in 1..(Len(listing) - 3) |-> HrefIn(listing[k + 2])]

Listed == {f \in src : IsMarkdown(f) /\ ~Reserved(f)}

\* C6: the entries of the index listing are in ascending order of the href
\* they emit, and they are the hrefs of the tree's pages, once each: the
\* listing is the same for every enumeration order.
C6_IndexSorted ==
    listing # <<>> =>
        /\ \A k \in 1..(Len(ListingHrefs) - 1) :
              ~LexLess(ListingHrefs[k + 1], ListingHrefs[k])
        /\ Len(ListingHrefs) = Cardinality(Listed)
        /\ {ListingHrefs[k] : k \in 1..Len(ListingHrefs)}
              = {HrefFor(f) : f \in Listed}

C6_Witness ==
    /\ bpc = "done" /\ Len(ListingHrefs) >= 3
    /\ \E k \in 1..Len(ListingHrefs) : Find(ListingHrefs[k], "/", 1) # 0

\* C7: a file whose name starts with __ is never rendered, written or
\* listed; when a build is complete every other Markdown file has been
\* rendered, written (unless --dry-run) and listed.
C7_ReservedExcluded ==
    /\ \A f \in src : Reserved(f) =>
          /\ f \notin rendered
          /\ <<"write", PageDst(f)>> \notin reported
          /\ PageDst(f) \notin DOMAIN written
          /\ listing # <<>> =>
                \A k \in 1..Len(ListingHrefs) : ListingHrefs[k] # HrefFor(f)
    /\ (cmd = "build" /\ bpc = "done") =>
          \A f \in Listed :
              /\ f \in rendered
              /\ <<"write", PageDst(f)>> \in reported
              /\ ~dry_run => PageDst(f) \in DOMAIN written
              /\ \E k \in 1..Len(ListingHrefs) : ListingHrefs[k] = HrefFor(f)

C7_Witness ==
    /\ cmd = "build" /\ bpc = "done" /\ ~dry_run
    /\ <<N_d, N_res_x_md>> \in src /\ <<N_res_index_md>> \in src
    /\ <<N_a_md>> \in src /\ <<N_a_html>> \in DOMAIN written

\* what the run did to the file system, as the log words it
Performed ==
    {<<"remove", q>> : q \in removed} \cup {<<"write", q>> : q \in DOMAIN written}

Ended == bpc \in {"done", "crashed", "exit"}

\* C8: a dry run leaves the file system as it was, and reports the paths
\* that the same command without --dry-run then writes and removes.
C8_DryRunSameDecisions ==
    /\ dry_run => dst = fs0
    /\ (run_no = 2 /\ Ended) => Performed = first_run

HasHtmlExt(path) == path # <<>> /\ EndsWith(Name(path), EXT_HTML)

\* C8 on the destinations that hold no directory named *.html (the case of
\* C9): there the two runs agree
C8_AgreesWithoutHtmlDirectory ==
    (\A q \in DOMAIN fs0 : ~(HasHtmlExt(q) /\ IsDir(fs0, q)))
    => C8_DryRunSameDecisions

\* C9: clean_domain without --dry-run ends normally; on a missing root it
\* changes nothing; otherwise no .html file is left, and every other file
\* and every directory is as before.
C9_CleanRemovesHtmlOnly ==
    (cmd = "clean" /\ ~dry_run) =>
        /\ bpc # "crashed"
        /\ bpc = "done" =>
              /\ ~Exists(fs0, <<>>) => dst = fs0
              /\ \A q \in DOMAIN dst : ~(HasHtmlExt(q) /\ IsFile(dst, q))
              /\ DOMAIN dst \subseteq DOMAIN fs0
              /\ \A q \in DOMAIN fs0 :
                    (IsDir(fs0, q) \/ ~HasHtmlExt(q))
                    => (q \in DOMAIN dst /\ dst[q] = fs0[q])

\* C10: a build whose domain source path is missing ends at once with a
\* non-zero status and has changed and reported nothing, also with
\* --clean-first.
C10_MissingSourceIsFatal ==
    (cmd = "build" /\ ~src_exists) =>
        /\ bpc \in {"main", "exit"}
        /\ bpc = "exit" => exit_status = 2
        /\ dst = fs0 /\ removed = {} /\ written = NoWrites /\ reported = {}

C10_Witness ==
    /\ cmd = "build" /\ ~src_exists /\ bpc = "exit" /\ clean_first /\ ~dry_run
    /\ rglob(dst, EXT_HTML) # {}

-----------------------------------------------------------------------------
(* Claims about titles (SpecBuild) *)

\* the text of the first line of ls that the block renderer renders as a
\* heading: the first line that starts with # outside a fenced block
RECURSIVE FirstRenderedHeading(_, _)
FirstRenderedHeading(ls, fenced) ==
    IF ls = <<>> THEN None
    ELSE IF _is_fenced_start(Head(ls)) # None
         THEN FirstRenderedHeading(Tail(ls), ~fenced)
    ELSE IF ~fenced /\ StartsWith(Head(ls), <<"#">>)
         THEN Some(strip(lstripChar(Head(ls), "#")))
    ELSE FirstRenderedHeading(Tail(ls), fenced)

\* the title the specification gives a source file
ExpectedTitle(path) ==
    LET h == FirstRenderedHeading(splitlines(read_text(path)), FALSE) IN
    IF h # None THEN h[1] ELSE ReplaceChar(stem(path), "-", " ")

\* the title shown in a line of the listing
TitleIn(l) ==
    SubSeq(l, (CHOOSE k \in 2..Len(l) : l[k] = "\">" /\
                  \A m \in 2..(k - 1) : l[m] # "\">") + 1, Len(l) - 1)

\* C11: the title of a page and of its entry in the index is the text of the
\* first heading the block renderer renders as one (a # line inside a fence
\* is none), or the stem of the file name with hyphens as spaces; the page
\* and the entry carry the same title.
C11_TitleIsFirstRenderedHeading ==
    (cmd = "build" /\ ~dry_run) =>
        /\ bpc = "convert" =>
              \A f \in rendered :
                  /\ IsFile(dst, PageDst(f))
                  /\ dst[PageDst(f)].page.title = escape(ExpectedTitle(f))
        /\ bpc = "done" =>
              \A f \in Listed :
                  \E k \in 1..(Len(listing) - 3) :
                      /\ HrefIn(listing[k + 2]) = HrefFor(f)
                      /\ TitleIn(listing[k + 2]) = escape(ExpectedTitle(f))
                      /\ TitleIn(listing[k + 2]) = PageOf(f).title

\* the half of C11 that holds: the page and its entry carry the same title,
\* the first line that starts with # wherever it stands, else the stem
C11_PageAndEntryAgree ==
    (cmd = "build" /\ ~dry_run) =>
        /\ bpc = "convert" =>
              \A f \in rendered :
                  dst[PageDst(f)].page.title = escape(TitleOf(f))
        /\ bpc = "done" =>
              \A f \in Listed :
                  \E k \in 1..(Len(listing) - 3) :
                      /\ HrefIn(listing[k + 2]) = HrefFor(f)
                      /\ TitleIn(listing[k + 2]) = escape(TitleOf(f))

-----------------------------------------------------------------------------
(* Claims about where a build writes (SpecBuild) *)

\* R with its extension .md replaced by .html
HtmlPathOf(path) ==
    SubSeq(path, 1, Len(path) - 1)
    \o <<SubSeq(Name(path), 1, Len(Name(path)) - 3) \o EXT_HTML>>

\* index.html at the root, and R' for every non-reserved Markdown file R
PagePaths == {<<N_index_html>>} \cup {HtmlPathOf(f) : f \in Listed}

\* the paths of the destination that this run created or changed
Touched == {q \in DOMAIN dst : q \notin DOMAIN fs0 \/ dst[q] # fs0[q]}

\* C12: every path a build writes is index.html at the domain root or R'
\* for a non-reserved Markdown source R, and a build writes or creates
\* nothing at any other location.
C12_WritesOnlyPages ==
    cmd = "build" =>
        /\ DOMAIN written \subseteq PagePaths
        /\ Touched \subseteq PagePaths

\* C12 as amended: every path a build writes is index.html at the domain
\* root or R' for a non-reserved Markdown source R; besides these files a
\* build creates only the directories that lead to them.
C12_WritesPagesAndParents ==
    cmd = "build" =>
        /\ DOMAIN written \subseteq PagePaths
        /\ \A q \in Touched :
              \/ q \in PagePaths /\ IsFile(dst, q)
              \/ IsDir(dst, q) /\ \E a \in PagePaths : q \in Ancestors(a)

C12_Witness ==
    /\ cmd = "build" /\ ~dry_run /\ bpc = "done"
    /\ <<N_d, N_e_md>> \in src /\ <<N_d, N_res_x_md>> \in src
    /\ written[<<N_d, HtmlPathOf(<<N_e_md>>)[1]>>] = 1
    /\ <<N_index_html>> \in DOMAIN written
    /\ <<N_d>> \in Touched /\ <<N_style_css>> \in DOMAIN dst \ Touched

-----------------------------------------------------------------------------
(* Claims about the scan of the block renderer (SpecMd) *)

\* the opening and closing list tags of the output, in order
ListTags(ls) == SelectSeq(ListMarkup(ls), LAMBDA x : x # "li")

Closes(open, close) ==
    \/ open = "ol" /\ close = "/ol"
    \/ open = "ul" /\ close = "/ul"

\* C13: at most one kind of list is open at any time, and when the renderer
\* returns every list it opened is closed: each <ul> is followed by its
\* </ul> and each <ol> by its </ol> before any other list opening tag and
\* before the end of the output.
C13_ListsAreClosed ==
    LET tags == ListTags(html_lines) IN
    /\ ~(list_open /\ ol_open)
    /\ \A k \in 1..Len(tags) :
          k % 2 = 1 /\ k < Len(tags) => Closes(tags[k], tags[k + 1])
    /\ mpc = "scan" =>
          IF Len(tags) % 2 = 0 THEN ~list_open /\ ~ol_open
          ELSE /\ tags[Len(tags)] \in {"ol", "ul"}
               /\ list_open <=> tags[Len(tags)] = "ul"
               /\ ol_open <=> tags[Len(tags)] = "ol"
    /\ mpc = "returned" => Len(tags) % 2 = 0

C13_Witness ==
    /\ mpc = "returned"
    /\ ListTags(html_lines) = <<"ol", "/ol", "ul", "/ul">>
    /\ ClassAt(Len(consumed)) = "ul_item" /\ ClassAt(1) = "ol_item"
    /\ Len(consumed) = 2

\* a line that starts with an indentation unit: four spaces or a tab
StartsIndented(l) == StartsWith(l, INDENT4) \/ StartsWith(l, TAB)

\* the line less one indentation unit
Unindented(l) ==
    IF StartsWith(l, INDENT4) THEN SubSeq(l, 5, Len(l))
    ELSE SubSeq(l, 2, Len(l))

\* the number of lines from the k-th on that start with an indentation unit
RECURSIVE IndentedRun(_, _)
IndentedRun(ls, k) ==
    IF k <= Len(ls) /\ StartsIndented(ls[k]) THEN 1 + IndentedRun(ls, k + 1)
    ELSE 0

\* the line the scan is at opens an indented code block: outside a fence it
\* starts with an indentation unit and is no fence, heading, item or blank
AtIndentedCode ==
    /\ mpc = "scan" /\ i < Len(lines) /\ ~in_code
    /\ LET line == lines[i + 1] IN
        /\ StartsIndented(line)
        /\ _is_fenced_start(line) = None
        /\ ~StartsWith(line, <<"#">>)
        /\ ~Truthy(_starts_with_numbered_item(line))
        /\ ~StartsWith(strip(line), <<"-", " ">>)
        /\ strip(line) # <<>>

\* C14: an iteration at an indented code line closes any open list and
\* consumes that line with every line right after it that starts with four
\* spaces or a tab, whatever such a line would be on its own, into exactly
\* one <pre><code> block: the lines escaped, each less exactly one
\* indentation unit; the scan resumes at the first line that does not start
\* with an indentation unit.
C14_IndentedBlock ==
    [][(AtIndentedCode /\ i' # i) =>
          LET n == IndentedRun(lines, i + 1)
              block == [k \in 1..n |-> Unindented(lines[i + k])]
              closing == (IF list_open THEN <<(<<"</ul>">>)>> ELSE <<>>)
                         \o (IF ol_open THEN <<(<<"</ol>">>)>> ELSE <<>>)
          IN /\ html_lines' = html_lines \o closing
                   \o <<PRE_OPEN, escape(Join(block, <<NL>>)), PRE_CLOSE>>
             /\ i' = i + n
             /\ ~list_open' /\ ~ol_open' /\ ~in_code' /\ code_buf' = code_buf
             /\ i' < Len(lines) => ~StartsIndented(lines[i' + 1])]_vars

C14_Witness ==
    /\ JustDid("indented") /\ LastIter[2] = 2 /\ LastIter[1] = 1
    /\ ClassAt(1) = "ul_item"
    /\ lines[2] = L_tab /\ lines[3] = L_ul_deep
    /\ html_lines[2] = <<"<li>", "a", "</li>">> /\ html_lines[3] = <<"</ul>">>

-----------------------------------------------------------------------------
(* Claims about clean beside another actor (SpecRace) *)

\* the paths clean_domain enumerates for deletion
Enumerated == rglob(fs0, EXT_HTML)

\* C15: when a file enumerated for deletion is removed by another actor
\* before clean deletes it, a clean without --dry-run does not fail: it goes
\* on with the remaining enumerated files, deletes each of them and
\* completes normally.
C15_CleanSurvivesRace ==
    (cmd = "clean" /\ ~dry_run /\ raced # {}) =>
        /\ bpc # "crashed"
        /\ bpc = "done" =>
              /\ exit_status = 0
              /\ \A q \in Enumerated : ~Exists(dst, q)
              /\ removed = Enumerated \ raced

\* what holds of C15: the same where no directory is named *.html
C15_SurvivesRaceWithoutHtmlDirectory ==
    (\A q \in Enumerated : IsFile(fs0, q)) => C15_CleanSurvivesRace

\* a race that clean outlives: the other file is deleted after the race
C15_RaceOutlived ==
    /\ bpc = "done" /\ raced = {<<N_a_html>>} /\ removed = {<<N_index_html>>}

-----------------------------------------------------------------------------
(* Claims about links (SpecInline) *)

\* the nearest c in s at or after from; 0 when there is none
Nearest(s, c, from) ==
    LET at == {k \in from..Len(s) : s[k] = c} IN
    IF at = {} THEN 0 ELSE CHOOSE k \in at : \A m \in at : k <= m

\* the scan of the claim over what is left of the text: a [ whose nearest ]
\* is followed at once by ( with a ) after it becomes an anchor and the scan
\* resumes after that ); any other character is copied
RECURSIVE ScanLinks(_)
ScanLinks(s) ==
    IF s = <<>> THEN <<>>
    ELSE
      LET close == IF Head(s) = "[" THEN Nearest(s, "]", 2) ELSE 0
          paren == IF close # 0 /\ close < Len(s) /\ s[close + 1] = "("
                   THEN Nearest(s, ")", close + 2) ELSE 0
      IN IF paren # 0
         THEN <<"<a href=\"">> \o SubSeq(s, close + 2, paren - 1)
              \o <<"\">">> \o SubSeq(s, 2, close - 1) \o <<"</a>">>
              \o ScanLinks(SubSeq(s, paren + 1, Len(s)))
         ELSE <<Head(s)>> \o ScanLinks(Tail(s))

\* s holds a complete [..](..) pattern
HasCompleteLink(s) ==
    \E a, b, c \in 1..Len(s) :
        /\ a < b /\ b + 1 < c
        /\ s[a] = "[" /\ s[b] = "]" /\ s[b + 1] = "(" /\ s[c] = ")"
        /\ \A m \in (a + 1)..(b - 1) : s[m] # "]"

\* C16: _replace_links scans left to right; at a [ whose nearest following ]
\* is immediately followed by ( with a ) after it, it emits
\* <a href="URL">TEXT</a> and resumes after the nearest such ); otherwise the
\* [ is copied and the scan resumes at the next character. Every character
\* outside a matched link is copied in order: a text without a complete
\* [..](..) pattern is returned unchanged.
C16_LinksLeftToRight ==
    ipc = "done" =>
        /\ t = ScanLinks(prev_t)
        /\ ~HasCompleteLink(prev_t) => t = prev_t
        /\ HasCompleteLink(prev_t) => \E k \in 1..Len(t) : t[k] = "<a href=\""

\* [][]() : the first [ is copied, as its ] is not followed by (, and the
\* link after it is rendered
C16_Witness ==
    /\ ipc = "done"
    /\ prev_t = <<"[", "]", "[", "]", "(", ")">>
    /\ t = <<"[", "]", "<a href=\"", "\">", "</a>">>

-----------------------------------------------------------------------------
(* Claims about the progress of the scan (SpecMd) *)

\* the number of input lines an iteration has put into the output or a
\* buffer: the lines of the block for indented code, one for any other class
LinesTaken(k) ==
    IF consumed[k][3] = "indented" /\ k = Len(consumed) /\ mpc = "scan"
    THEN Occurrences(html_lines[Len(html_lines) - 1], <<NL>>) + 1
    ELSE IF consumed[k][3] = "indented" THEN consumed[k][2]
    ELSE 1

\* C17: the scan terminates: every iteration advances the index by at least
\* one (the indented-code branch by the number of lines it consumed), the
\* index never passes the end, and every input line is consumed by exactly
\* one iteration: none is skipped, none is classified twice.
C17_EveryLineOnce ==
    /\ i <= Len(lines)
    /\ i = (IF consumed = <<>> THEN 0 ELSE LastIter[1] + LastIter[2])
    /\ \A k \in 1..Len(consumed) :
          /\ consumed[k][2] >= 1
          /\ consumed[k][2] = LinesTaken(k)
          /\ consumed[k][1] = (IF k = 1 THEN 0
                               ELSE consumed[k - 1][1] + consumed[k - 1][2])
    /\ mpc = "returned" => i = Len(lines)

C17_Witness ==
    /\ mpc = "returned" /\ Len(lines) = 4 /\ Len(consumed) = 3
    /\ consumed[2] = <<1, 2, "indented">>

-----------------------------------------------------------------------------
(* Claims about what the output holds (SpecMd) *)

\* the m-th line of the output stands inside a <pre><code> block
InsidePre(m) ==
    /\ \E a \in 1..(m - 1) :
          /\ html_lines[a] = PRE_OPEN
          /\ \A x \in (a + 1)..(m - 1) : html_lines[x] # PRE_CLOSE
    /\ \E b \in (m + 1)..Len(html_lines) : html_lines[b] = PRE_CLOSE

\* C18: when markdown_to_html returns, no input is left buffered: every
\* line appended to the fenced-code buffer appears in the output inside a
\* <pre><code> block, also when the last fence of the input was not closed.
C18_NothingLeftBuffered ==
    mpc = "returned" =>
        /\ code_buf = <<>>
        /\ \A k \in 1..Len(consumed) :
              consumed[k][3] = "in_code" =>
                  \E m \in 1..Len(html_lines) :
                      /\ html_lines[m] = escape(lines[consumed[k][1] + 1])
                      /\ InsidePre(m)

\* what holds of C18: the same for an input whose fences are all closed and
\* whose fenced blocks do not end with an empty line (C3)
C18_HoldsForClosedFences ==
    (mpc = "returned" /\ ~in_code
     /\ \A k \in 1..Len(consumed) :
           (/\ consumed[k][3] = "fence_close"
            /\ k > 1 /\ ClassAt(k - 1) = "in_code")
               => lines[consumed[k][1]] # <<>>)
        => C18_NothingLeftBuffered

\* a list is open where the m-th line of the output stands
OpenAt(m) ==
    \E a \in 1..(m - 1) :
        /\ ListKind(html_lines[a]) \in {<<"ol">>, <<"ul">>}
        /\ \A x \in (a + 1)..(m - 1) :
              ListKind(html_lines[x]) \notin {<<"/ol">>, <<"/ul">>}

\* C19: between the opening and the closing tag of a list only <li> lines
\* appear: headings, paragraphs, blank separators and <pre><code> blocks,
\* indented or fenced, are emitted only while no list is open.
C19_OnlyItemsInLists ==
    \A m \in 1..Len(html_lines) :
        OpenAt(m) =>
            ListKind(html_lines[m]) \in {<<"li">>, <<"/ol">>, <<"/ul">>}

\* what holds of C19: the same for an input without a fence line
C19_HoldsWithoutFence ==
    (\A k \in 1..Len(lines) : _is_fenced_start(lines[k]) = None)
        => C19_OnlyItemsInLists

-----------------------------------------------------------------------------
(* Claims about the files of a build (SpecBuild) *)

\* C20: in one build without --dry-run no destination path is written more
\* than once, and when the build is complete the target of every index
\* entry exists and holds the page composed from the source file whose
\* relative path is the href with .md for .html; also for a source tree
\* that holds index.md at its root.
C20_OnePagePerPath ==
    (cmd = "build" /\ ~dry_run) =>
        /\ \A q \in DOMAIN written : written[q] = 1
        /\ bpc = "done" =>
              \A f \in Listed :
                  /\ \E k \in 1..Len(ListingHrefs) :
                        ListingHrefs[k] = PathStr(HtmlPathOf(f))
                  /\ IsFile(dst, HtmlPathOf(f))
                  /\ dst[HtmlPathOf(f)].page = PageOf(f)

\* what holds of C20: the same for a source tree without index.md at its
\* root
C20_HoldsWithoutRootIndexMd ==
    <<N_index_md>> \notin src => C20_OnePagePerPath

====
